---- MODULE Spec2Model ----
(***************************************************************************)
(* State model of program/src/state.rs: the user account overlay (header   *)
(* plus order-slot array), the market state overlay's tag check, and the   *)
(* operations of UserAccount.                                              *)
(***************************************************************************)
EXTENDS Integers, Sequences, FiniteSets, TLC

(* ------------------------------ bounds --------------------------------- *)
\* number of Order records that fit after the header (orders.len())
Capacity == 2
\* order ids handed to add_order / the lookups are 1..MaxId
MaxId == 2
\* client ids are 1..MaxClientId
MaxClientId == 2
\* tag values found in a buffer are 0..MaxTag (4 and above are no AccountTag)
MaxTag == 4
\* quote quantities tried one by one are 0..MaxQty
MaxQty == 3
\* MSRM balances tried one by one are 0..MaxMsrm
MaxMsrm == 2
\* the account of the removal scenario has ScenarioCapacity slots
ScenarioCapacity == 4

(* --------------------------- program constants ------------------------- *)
\* enum AccountTag, #[repr(u64)]
TagUninitialized == 0
TagDexState == 1
TagUserAccount == 2
TagClosed == 3

\* enum MarketFeeType, as u8
MarketFeeTypeDefault == 0
MarketFeeTypeStable == 1
FeeTypes == {MarketFeeTypeDefault, MarketFeeTypeStable}

USER_ACCOUNT_HEADER_LEN == 152
OrderLEN == 32

TagValues == 0..MaxTag
OrderIds == 1..MaxId
ClientIds == 1..MaxClientId
\* usize arguments tried as order_index: every slot, and one past the array
Indexes == 0..Capacity
\* the one market / owner key the account is created for
Pubkeys == {1}

\* length in bytes of a user account buffer holding Capacity records
BufferLen == USER_ACCOUNT_HEADER_LEN + Capacity * OrderLEN
\* try_cast_slice_mut(tl): the number of whole records in the tail
OrdersLen == (BufferLen - USER_ACCOUNT_HEADER_LEN) \div OrderLEN

\* struct Order
Order(id, client_id) == [id |-> id, client_id |-> client_id]
\* Zeroable: the all-zero record of a freshly allocated buffer
ZeroOrder == Order(0, 0)
Orders == {Order(i, c) : i \in OrderIds, c \in ClientIds}

(* ------------------------------ results -------------------------------- *)
NoVal == -1
Ok(v) == [ok |-> TRUE, val |-> v, err |-> "None"]
Err(e) == [ok |-> FALSE, val |-> NoVal, err |-> e]
IsOk(r) == r.ok
IsErr(r, e) == (~r.ok) /\ r.err = e

(* --------------------------- UserAccountHeader ------------------------- *)
\* the header of a zeroed buffer with a given tag
ZeroHeader(t) ==
  [tag |-> t, market |-> 0, owner |-> 0,
   base_token_free |-> 0, base_token_locked |-> 0,
   quote_token_free |-> 0, quote_token_locked |-> 0,
   accumulated_rebates |-> 0,
   accumulated_maker_quote_volume |-> 0, accumulated_maker_base_volume |-> 0,
   accumulated_taker_quote_volume |-> 0, accumulated_taker_base_volume |-> 0,
   number_of_orders |-> 0]

\* new that forgets the tag: the header it builds is still Uninitialized
NewHeaderKeepsZeroTag(market, owner) ==
  [tag |-> TagUninitialized, market |-> market, owner |-> owner,
   base_token_free |-> 0, base_token_locked |-> 0,
   quote_token_free |-> 0, quote_token_locked |-> 0,
   accumulated_rebates |-> 0,
   accumulated_maker_quote_volume |-> 0, accumulated_maker_base_volume |-> 0,
   accumulated_taker_quote_volume |-> 0, accumulated_taker_base_volume |-> 0,
   number_of_orders |-> 0]

\* UserAccountHeader::new
NewHeader(market, owner) ==
  [tag |-> TagUserAccount, market |-> market, owner |-> owner,
   base_token_free |-> 0, base_token_locked |-> 0,
   quote_token_free |-> 0, quote_token_locked |-> 0,
   accumulated_rebates |-> 0,
   accumulated_maker_quote_volume |-> 0, accumulated_maker_base_volume |-> 0,
   accumulated_taker_quote_volume |-> 0, accumulated_taker_base_volume |-> 0,
   number_of_orders |-> 0]

(* ------------------------- UserAccount operations ---------------------- *)
\* Each operator takes the header h and the slot array os of the view and
\* returns the Result, and for the mutators the header and slots afterwards.

\* UserAccount::read_order
ReadOrder(h, os, order_index) ==
  IF order_index >= h.number_of_orders
    THEN Err("InvalidOrderIndex")
    ELSE Ok(os[order_index])

\* remove_order that only truncates: the last record is not moved into the hole
RemoveOrderNoSwap(h, os, order_index) ==
  IF order_index >= h.number_of_orders
    THEN [res |-> Err("InvalidOrderIndex"), header |-> h, orders |-> os]
    ELSE [res |-> Ok(NoVal),
          header |-> [h EXCEPT !.number_of_orders = h.number_of_orders - 1],
          orders |-> os]

\* remove_order with the copy reversed: the removed record overwrites the last
RemoveOrderCopiesRemoved(h, os, order_index) ==
  IF order_index >= h.number_of_orders
    THEN [res |-> Err("InvalidOrderIndex"), header |-> h, orders |-> os]
    ELSE LET os1 == IF h.number_of_orders - order_index # 1
                      THEN [os EXCEPT ![h.number_of_orders - 1] = os[order_index]]
                      ELSE os
         IN [res |-> Ok(NoVal),
             header |-> [h EXCEPT !.number_of_orders = h.number_of_orders - 1],
             orders |-> os1]

\* remove_order that copies the last record before it tests the index
RemoveOrderWritesBeforeCheck(h, os, order_index) ==
  LET os1 == IF h.number_of_orders >= 1 /\ order_index \in DOMAIN os
               THEN [os EXCEPT ![order_index] = os[h.number_of_orders - 1]]
               ELSE os
  IN IF order_index >= h.number_of_orders
       THEN [res |-> Err("InvalidOrderIndex"), header |-> h, orders |-> os1]
       ELSE [res |-> Ok(NoVal),
             header |-> [h EXCEPT !.number_of_orders = h.number_of_orders - 1],
             orders |-> os1]

\* remove_order that closes the hole by moving every later record one slot down
RemoveOrderShiftsDown(h, os, order_index) ==
  IF order_index >= h.number_of_orders
    THEN [res |-> Err("InvalidOrderIndex"), header |-> h, orders |-> os]
    ELSE [res |-> Ok(NoVal),
          header |-> [h EXCEPT !.number_of_orders = h.number_of_orders - 1],
          orders |-> [s \in DOMAIN os |->
                        IF s >= order_index /\ s < h.number_of_orders - 1
                          THEN os[s + 1] ELSE os[s]]]

\* UserAccount::remove_order
RemoveOrder(h, os, order_index) ==
  IF order_index >= h.number_of_orders
    THEN [res |-> Err("InvalidOrderIndex"), header |-> h, orders |-> os]
    ELSE LET os1 == IF h.number_of_orders - order_index # 1
                      THEN [os EXCEPT ![order_index] = os[h.number_of_orders - 1]]
                      ELSE os
         IN [res |-> Ok(NoVal),
             header |-> [h EXCEPT !.number_of_orders = h.number_of_orders - 1],
             orders |-> os1]

\* add_order that refuses one slot early
AddOrderOffByOne(h, os, order) ==
  IF h.number_of_orders + 1 \notin DOMAIN os
    THEN [res |-> Err("UserAccountFull"), header |-> h, orders |-> os]
    ELSE [res |-> Ok(NoVal),
          header |-> [h EXCEPT !.number_of_orders = h.number_of_orders + 1],
          orders |-> [os EXCEPT ![h.number_of_orders] = order]]

\* add_order that counts the order but writes only its id into the slot
AddOrderWritesIdOnly(h, os, order) ==
  IF h.number_of_orders \notin DOMAIN os
    THEN [res |-> Err("UserAccountFull"), header |-> h, orders |-> os]
    ELSE [res |-> Ok(NoVal),
          header |-> [h EXCEPT !.number_of_orders = h.number_of_orders + 1],
          orders |-> [os EXCEPT ![h.number_of_orders].id = order.id]]

\* add_order whose capacity test is > instead of >=: on a full account it
\* counts an order it has no slot for
AddOrderCountsPastCapacity(h, os, order) ==
  IF h.number_of_orders > Cardinality(DOMAIN os)
    THEN [res |-> Err("UserAccountFull"), header |-> h, orders |-> os]
    ELSE [res |-> Ok(NoVal),
          header |-> [h EXCEPT !.number_of_orders = h.number_of_orders + 1],
          orders |-> IF h.number_of_orders \in DOMAIN os
                       THEN [os EXCEPT ![h.number_of_orders] = order]
                       ELSE os]

\* add_order that writes the order into every slot from number_of_orders on
AddOrderFillsTail(h, os, order) ==
  IF h.number_of_orders \notin DOMAIN os
    THEN [res |-> Err("UserAccountFull"), header |-> h, orders |-> os]
    ELSE [res |-> Ok(NoVal),
          header |-> [h EXCEPT !.number_of_orders = h.number_of_orders + 1],
          orders |-> [s \in DOMAIN os |->
                        IF s >= h.number_of_orders THEN order ELSE os[s]]]

\* UserAccount::add_order; orders.get_mut(n) is None when n is no index of
\* the slice
AddOrder(h, os, order) ==
  IF h.number_of_orders \notin DOMAIN os
    THEN [res |-> Err("UserAccountFull"), header |-> h, orders |-> os]
    ELSE [res |-> Ok(NoVal),
          header |-> [h EXCEPT !.number_of_orders = h.number_of_orders + 1],
          orders |-> [os EXCEPT ![h.number_of_orders] = order]]

\* self.orders.iter().enumerate().find(p): the first index of the slice, from 0,
\* whose record satisfies p; len when there is none
RECURSIVE FirstWithId(_, _, _)
FirstWithId(os, order_id, k) ==
  IF k \notin DOMAIN os THEN k
  ELSE IF os[k].id = order_id THEN k
  ELSE FirstWithId(os, order_id, k + 1)

RECURSIVE FirstWithClientId(_, _, _)
FirstWithClientId(os, client_order_id, k) ==
  IF k \notin DOMAIN os THEN k
  ELSE IF os[k].client_id = client_order_id THEN k
  ELSE FirstWithClientId(os, client_order_id, k + 1)

\* UserAccount::find_order_index
FindOrderIndex(h, os, order_id) ==
  LET k == FirstWithId(os, order_id, 0)
  IN IF k \in DOMAIN os THEN Ok(k) ELSE Err("OrderNotFound")

\* UserAccount::find_order_id_by_client_id
FindOrderIdByClientId(h, os, client_order_id) ==
  LET k == FirstWithClientId(os, client_order_id, 0)
  IN IF k \in DOMAIN os THEN Ok(os[k].id) ELSE Err("OrderNotFound")

(* ------------------------------ overlays ------------------------------- *)
\* UserAccount::from_buffer_unchecked: no test of the tag
FromBufferUnchecked(h) == Ok(NoVal)

\* from_buffer that accepts every initialised buffer
FromBufferAcceptsInitialized(h) ==
  IF h.tag = TagUninitialized THEN Err("InvalidAccountData") ELSE Ok(NoVal)

\* UserAccount::from_buffer
FromBuffer(h) ==
  IF h.tag # TagUserAccount THEN Err("InvalidAccountData") ELSE Ok(NoVal)

\* DexState::get_unchecked
GetUnchecked(d) == Ok(NoVal)

\* DexState::get
Get(d) ==
  IF d.tag # TagDexState THEN Err("InvalidAccountData") ELSE Ok(NoVal)

(* ------------------------------- state --------------------------------- *)
VARIABLES
  header,     \* UserAccount.header: the first 152 bytes of the account buffer
  orders,     \* UserAccount.orders: the slot array that follows the header
  dex_state,  \* the market buffer (DexState): its tag and fee_type
  live,       \* history: the ids added and not since removed
  pre,        \* history: header and orders before the last operation
  ret,        \* the last operation, its argument and its Result
  args        \* the arguments the caller of the fee engine holds

vars == <<header, orders, dex_state, live, pre, ret, args>>

Snapshot == [header |-> header, orders |-> orders, dex_state |-> dex_state]
Called(op, arg, res) == [op |-> op, arg |-> arg, res |-> res]

\* a zeroed account buffer of BufferLen bytes; the market is initialised
Init ==
  /\ header = ZeroHeader(TagUninitialized)
  /\ orders = [s \in 0..(OrdersLen - 1) |-> ZeroOrder]
  /\ dex_state = [tag |-> TagDexState, fee_type |-> MarketFeeTypeDefault]
  /\ live = {}
  /\ pre = [header |-> header, orders |-> orders, dex_state |-> dex_state]
  /\ ret = Called("none", NoVal, Ok(NoVal))
  /\ args = NoVal

\* any buffers the host may hand to the overlays
InitAnyTag ==
  /\ \E t \in TagValues : header = ZeroHeader(t)
  /\ orders = [s \in 0..(OrdersLen - 1) |-> ZeroOrder]
  /\ \E t \in TagValues : dex_state = [tag |-> t, fee_type |-> MarketFeeTypeDefault]
  /\ live = {}
  /\ pre = [header |-> header, orders |-> orders, dex_state |-> dex_state]
  /\ ret = Called("none", NoVal, Ok(NoVal))
  /\ args = NoVal

(* ------------------------------ actions -------------------------------- *)
\* the caller of an order operation holds the view that the checked overlay
\* of the account buffer gave it
HasView == IsOk(FromBuffer(header))

\* account initialisation: the header built by new is written to a buffer
\* that is still Uninitialized
CreateUserAccount ==
  /\ header.tag = TagUninitialized
  /\ \E market \in Pubkeys, owner \in Pubkeys :
       header' = NewHeader(market, owner)
  /\ live' = {}
  /\ pre' = Snapshot
  /\ ret' = Called("new", NoVal, Ok(NoVal))
  /\ UNCHANGED <<orders, dex_state, args>>

\* account teardown by the dispatcher, once no order remains
CloseUserAccount ==
  /\ header.tag = TagUserAccount
  /\ header.number_of_orders = 0
  /\ header' = [header EXCEPT !.tag = TagClosed]
  /\ pre' = Snapshot
  /\ ret' = Called("close", NoVal, Ok(NoVal))
  /\ UNCHANGED <<orders, dex_state, live, args>>

DoFromBuffer ==
  /\ pre' = Snapshot
  /\ ret' = Called("from_buffer", NoVal, FromBuffer(header))
  /\ UNCHANGED <<header, orders, dex_state, live, args>>

DoFromBufferUnchecked ==
  /\ pre' = Snapshot
  /\ ret' = Called("from_buffer_unchecked", NoVal, FromBufferUnchecked(header))
  /\ UNCHANGED <<header, orders, dex_state, live, args>>

DoGet ==
  /\ pre' = Snapshot
  /\ ret' = Called("get", NoVal, Get(dex_state))
  /\ UNCHANGED <<header, orders, dex_state, live, args>>

DoGetUnchecked ==
  /\ pre' = Snapshot
  /\ ret' = Called("get_unchecked", NoVal, GetUnchecked(dex_state))
  /\ UNCHANGED <<header, orders, dex_state, live, args>>

DoReadOrder ==
  \E order_index \in Indexes :
    /\ HasView
    /\ pre' = Snapshot
    /\ ret' = Called("read_order", order_index, ReadOrder(header, orders, order_index))
    /\ UNCHANGED <<header, orders, dex_state, live, args>>

DoAddOrder(order) ==
  LET r == AddOrder(header, orders, order)
  IN /\ HasView
     /\ header' = r.header
     /\ orders' = r.orders
     /\ live' = IF IsOk(r.res) THEN live \cup {order.id} ELSE live
     /\ pre' = Snapshot
     /\ ret' = Called("add_order", order, r.res)
     /\ UNCHANGED <<dex_state, args>>

DoRemoveOrderAt(order_index) ==
  LET r == RemoveOrder(header, orders, order_index)
  IN /\ HasView
     /\ header' = r.header
     /\ orders' = r.orders
     /\ live' = IF IsOk(r.res) THEN live \ {orders[order_index].id} ELSE live
     /\ pre' = Snapshot
     /\ ret' = Called("remove_order", order_index, r.res)
     /\ UNCHANGED <<dex_state, args>>

DoRemoveOrder == \E order_index \in Indexes : DoRemoveOrderAt(order_index)

DoFindOrderIndex ==
  \E order_id \in OrderIds :
    /\ HasView
    /\ pre' = Snapshot
    /\ ret' = Called("find_order_index", order_id,
                     FindOrderIndex(header, orders, order_id))
    /\ UNCHANGED <<header, orders, dex_state, live, args>>

DoFindOrderIdByClientId ==
  \E client_order_id \in ClientIds :
    /\ HasView
    /\ pre' = Snapshot
    /\ ret' = Called("find_order_id_by_client_id", client_order_id,
                     FindOrderIdByClientId(header, orders, client_order_id))
    /\ UNCHANGED <<header, orders, dex_state, live, args>>

Overlays ==
  \/ DoFromBuffer
  \/ DoFromBufferUnchecked
  \/ DoGet
  \/ DoGetUnchecked

Queries ==
  \/ DoReadOrder
  \/ DoFindOrderIndex
  \/ DoFindOrderIdByClientId

\* any caller
Next ==
  \/ CreateUserAccount
  \/ CloseUserAccount
  \/ Overlays
  \/ Queries
  \/ \E order \in Orders : DoAddOrder(order)
  \/ DoRemoveOrder

Spec == Init /\ [][Next]_vars

\* a caller that only adds orders whose id is not currently live
NextUnique ==
  \/ CreateUserAccount
  \/ CloseUserAccount
  \/ Overlays
  \/ Queries
  \/ \E order \in Orders : order.id \notin live /\ DoAddOrder(order)
  \/ DoRemoveOrder

SpecUnique == Init /\ [][NextUnique]_vars

\* the overlays on whatever buffers the host hands in
NextOverlay ==
  \/ CreateUserAccount
  \/ CloseUserAccount
  \/ Overlays

SpecOverlay == InitAnyTag /\ [][NextOverlay]_vars

\* an account of ScenarioCapacity slots whose caller gives each new order the
\* next id, counted from 1, and removes at any index
InitScenario ==
  /\ header = ZeroHeader(TagUninitialized)
  /\ orders = [s \in 0..(ScenarioCapacity - 1) |-> ZeroOrder]
  /\ dex_state = [tag |-> TagDexState, fee_type |-> MarketFeeTypeDefault]
  /\ live = {}
  /\ pre = [header |-> header, orders |-> orders, dex_state |-> dex_state]
  /\ ret = Called("none", NoVal, Ok(NoVal))
  /\ args = NoVal

NextScenario ==
  \/ CreateUserAccount
  \/ DoAddOrder(Order(header.number_of_orders + 1, 1))
  \/ \E order_index \in 0..ScenarioCapacity : DoRemoveOrderAt(order_index)

SpecScenario == InitScenario /\ [][NextScenario]_vars

(* ------------------------- 64 and 128 bit integers --------------------- *)
\* u64 and u128 values exceed the integers of the model checker: a value is
\* the sequence of its base-256 digits, least significant first, without
\* leading zero digits (0 is the empty sequence).
Limb == 2 ^ 8

RECURSIVE Trim(_)
Trim(s) ==
  IF s = <<>> THEN s
  ELSE IF s[Len(s)] = 0 THEN Trim(SubSeq(s, 1, Len(s) - 1)) ELSE s

RECURSIVE Big(_)
\* the digits of a small natural number
Big(n) == IF n = 0 THEN <<>> ELSE <<n % Limb>> \o Big(n \div Limb)

Digit(a, i) == IF i <= Len(a) THEN a[i] ELSE 0
MaxLen(a, b) == IF Len(a) >= Len(b) THEN Len(a) ELSE Len(b)

RECURSIVE AddFrom(_, _, _, _)
AddFrom(a, b, i, carry) ==
  IF i > MaxLen(a, b)
    THEN (IF carry = 0 THEN <<>> ELSE <<carry>>)
    ELSE LET t == Digit(a, i) + Digit(b, i) + carry
         IN <<t % Limb>> \o AddFrom(a, b, i + 1, t \div Limb)

BigAdd(a, b) == AddFrom(a, b, 1, 0)

RECURSIVE LeqFrom(_, _, _)
LeqFrom(a, b, i) ==
  IF i = 0 THEN TRUE
  ELSE IF a[i] < b[i] THEN TRUE
  ELSE IF a[i] > b[i] THEN FALSE
  ELSE LeqFrom(a, b, i - 1)

\* a <= b
BigLeq(a, b) ==
  IF Len(a) # Len(b) THEN Len(a) < Len(b) ELSE LeqFrom(a, b, Len(a))

RECURSIVE SubFrom(_, _, _, _)
SubFrom(a, b, i, borrow) ==
  IF i > Len(a) THEN <<>>
  ELSE LET t == Digit(a, i) - Digit(b, i) - borrow
       IN IF t < 0 THEN <<t + Limb>> \o SubFrom(a, b, i + 1, 1)
                   ELSE <<t>> \o SubFrom(a, b, i + 1, 0)

\* a - b, for b <= a
BigSub(a, b) == Trim(SubFrom(a, b, 1, 0))

RECURSIVE MulDigitFrom(_, _, _, _)
MulDigitFrom(a, d, i, carry) ==
  IF i > Len(a)
    THEN (IF carry = 0 THEN <<>> ELSE <<carry>>)
    ELSE LET t == a[i] * d + carry
         IN <<t % Limb>> \o MulDigitFrom(a, d, i + 1, t \div Limb)

\* a * 256^k
ShiftDigits(a, k) == IF a = <<>> THEN a ELSE [i \in 1..k |-> 0] \o a

RECURSIVE BigMul(_, _)
BigMul(a, b) ==
  IF b = <<>> THEN <<>>
  ELSE BigAdd(Trim(MulDigitFrom(a, Head(b), 1, 0)),
              ShiftDigits(BigMul(a, Tail(b)), 1))

\* x << 32 and x >> 32
Shl32(a) == ShiftDigits(a, 4)
Shr32(a) == IF Len(a) <= 4 THEN <<>> ELSE SubSeq(a, 5, Len(a))

\* a * d for one digit d
MulDigit(a, d) == Trim(MulDigitFrom(a, d, 1, 0))

RECURSIVE QuotDigit(_, _, _, _)
\* the largest digit e >= d with e * b <= r, tried bit by bit from bit k down
QuotDigit(r, b, k, d) ==
  IF k < 0 THEN d
  ELSE IF BigLeq(MulDigit(b, d + 2 ^ k), r)
    THEN QuotDigit(r, b, k - 1, d + 2 ^ k)
    ELSE QuotDigit(r, b, k - 1, d)

RECURSIVE DivFrom(_, _, _, _)
\* long division from digit i of a down, r the rest so far: the quotient's
\* digits 1..i
DivFrom(a, b, i, r) ==
  IF i = 0 THEN <<>>
  ELSE LET r2 == Trim(<<a[i]>> \o r)
           d == QuotDigit(r2, b, 7, 0)
       IN DivFrom(a, b, i - 1, BigSub(r2, MulDigit(b, d))) \o <<d>>

\* a / b rounded down, for b # 0
BigDiv(a, b) == Trim(DivFrom(a, b, Len(a), <<>>))

\* u64::MAX and the test that a value fits a u64
U64Max == [i \in 1..8 |-> Limb - 1]
FitsU64(a) == Len(a) <= 8

(* --------------------------- fixed point (32.32) ----------------------- *)
\* Option<u64>
Some(v) == [some |-> TRUE, val |-> v]
None == [some |-> FALSE, val |-> <<>>]
\* what a call that may panic does: it returns a value or it panics
Returned(v) == [panic |-> FALSE, val |-> v]
Panicked == [panic |-> TRUE, val |-> <<>>]
\* Option::unwrap
Unwrap(o) == IF o.some THEN Returned(o.val) ELSE Panicked

\* utils::FP_32_ONE, 1 << 32
FP_32_ONE == Shl32(Big(1))
\* the checked conversion of the double-width result to u64
SafeDowncast(x) == IF FitsU64(x) THEN Some(x) ELSE None
\* utils::fp32_div: (a << 32) / b in double width, no result when b is 0 or
\* the quotient does not fit
Fp32Div(a, b_fp32) ==
  IF b_fp32 = <<>> THEN None ELSE SafeDowncast(BigDiv(Shl32(a), b_fp32))
\* utils::fp32_mul: (a * b) >> 32 in double width
Fp32Mul(a, b_fp32) == SafeDowncast(Shr32(BigMul(a, b_fp32)))

(* ------------------------------- FeeTier ------------------------------- *)
\* enum FeeTier in the order of its declaration: a tier as u8 is its place, from 0
FeeTiers == <<"Base", "Srm2", "Srm3", "Srm4", "Srm5", "Srm6", "MSrm", "Stable">>
FeeTier == {FeeTiers[i] : i \in 1..Len(FeeTiers)}
AsU8(tier) == (CHOOSE i \in 1..Len(FeeTiers) : FeeTiers[i] = tier) - 1

\* processor::REFERRAL_MASK, the high bit of the byte
REFERRAL_MASK == 128

RECURSIVE BitAnd(_, _)
\* a & b
BitAnd(a, b) ==
  IF a = 0 \/ b = 0 THEN 0
  ELSE (a % 2) * (b % 2) + 2 * BitAnd(a \div 2, b \div 2)
\* a | b
BitOr(a, b) == a + b - BitAnd(a, b)
\* !a for a u8
NotU8(a) == 255 - a

\* the packed byte of the trade callback metadata: the tier as u8, with the
\* referral bit set when the trade was referred
PackFeeTier(tier, is_referred) ==
  IF is_referred THEN BitOr(AsU8(tier), REFERRAL_MASK) ELSE AsU8(tier)

\* from_srm_and_msrm_balances with the tiers Srm5 and Srm6 exchanged
FromSrmAndMsrmBalancesSwapped(dex, srm_held, msrm_held) ==
  LET one_srm == Big(1000000)
  IN IF dex.fee_type = MarketFeeTypeStable THEN "Stable"
     ELSE IF BigLeq(Big(1), msrm_held) THEN "MSrm"
     ELSE IF BigLeq(BigMul(one_srm, Big(1000000)), srm_held) THEN "Srm5"
     ELSE IF BigLeq(BigMul(one_srm, Big(100000)), srm_held) THEN "Srm6"
     ELSE IF BigLeq(BigMul(one_srm, Big(10000)), srm_held) THEN "Srm4"
     ELSE IF BigLeq(BigMul(one_srm, Big(1000)), srm_held) THEN "Srm3"
     ELSE IF BigLeq(BigMul(one_srm, Big(100)), srm_held) THEN "Srm2"
     ELSE "Base"

\* from_srm_and_msrm_balances that tests the market's fee type after the balances
FromSrmAndMsrmBalancesStableLast(dex, srm_held, msrm_held) ==
  LET one_srm == Big(1000000)
  IN IF BigLeq(Big(1), msrm_held) THEN "MSrm"
     ELSE IF BigLeq(BigMul(one_srm, Big(1000000)), srm_held) THEN "Srm6"
     ELSE IF BigLeq(BigMul(one_srm, Big(100000)), srm_held) THEN "Srm5"
     ELSE IF BigLeq(BigMul(one_srm, Big(10000)), srm_held) THEN "Srm4"
     ELSE IF BigLeq(BigMul(one_srm, Big(1000)), srm_held) THEN "Srm3"
     ELSE IF BigLeq(BigMul(one_srm, Big(100)), srm_held) THEN "Srm2"
     ELSE IF dex.fee_type = MarketFeeTypeStable THEN "Stable"
     ELSE "Base"

\* FeeTier::from_srm_and_msrm_balances
FromSrmAndMsrmBalances(dex, srm_held, msrm_held) ==
  LET one_srm == Big(1000000)
  IN IF dex.fee_type = MarketFeeTypeStable THEN "Stable"
     ELSE IF BigLeq(Big(1), msrm_held) THEN "MSrm"
     ELSE IF BigLeq(BigMul(one_srm, Big(1000000)), srm_held) THEN "Srm6"
     ELSE IF BigLeq(BigMul(one_srm, Big(100000)), srm_held) THEN "Srm5"
     ELSE IF BigLeq(BigMul(one_srm, Big(10000)), srm_held) THEN "Srm4"
     ELSE IF BigLeq(BigMul(one_srm, Big(1000)), srm_held) THEN "Srm3"
     ELSE IF BigLeq(BigMul(one_srm, Big(100)), srm_held) THEN "Srm2"
     ELSE "Base"

\* FeeTier::from_u8; unreachable!() panics
FromU8(tag) ==
  LET is_referred == BitAnd(tag, REFERRAL_MASK) # 0
      bits == BitAnd(tag, NotU8(REFERRAL_MASK))
  IN IF bits = 0 THEN Returned(<<"Base", is_referred>>)
     ELSE IF bits = 1 THEN Returned(<<"Srm2", is_referred>>)
     ELSE IF bits = 2 THEN Returned(<<"Srm3", is_referred>>)
     ELSE IF bits = 3 THEN Returned(<<"Srm4", is_referred>>)
     ELSE IF bits = 4 THEN Returned(<<"Srm5", is_referred>>)
     ELSE IF bits = 5 THEN Returned(<<"Srm6", is_referred>>)
     ELSE Panicked

\* taker_rate without the division: 40 << 32 and so on
TakerRateNotScaled(self) ==
  CASE self = "Base" -> Shl32(Big(40))
    [] self = "Srm2" -> Shl32(Big(39))
    [] self = "Srm3" -> Shl32(Big(38))
    [] self = "Srm4" -> Shl32(Big(36))
    [] self = "Srm5" -> Shl32(Big(34))
    [] self = "Srm6" -> Shl32(Big(32))
    [] self = "MSrm" -> Shl32(Big(30))
    [] self = "Stable" -> Shl32(Big(10))

\* FeeTier::taker_rate
TakerRate(self) ==
  CASE self = "Base" -> BigDiv(Shl32(Big(40)), Big(100000))
    [] self = "Srm2" -> BigDiv(Shl32(Big(39)), Big(100000))
    [] self = "Srm3" -> BigDiv(Shl32(Big(38)), Big(100000))
    [] self = "Srm4" -> BigDiv(Shl32(Big(36)), Big(100000))
    [] self = "Srm5" -> BigDiv(Shl32(Big(34)), Big(100000))
    [] self = "Srm6" -> BigDiv(Shl32(Big(32)), Big(100000))
    [] self = "MSrm" -> BigDiv(Shl32(Big(30)), Big(100000))
    [] self = "Stable" -> BigDiv(Shl32(Big(10)), Big(100000))

\* FeeTier::maker_rate
MakerRate(self) == Big(0)

\* FeeTier::maker_rebate
MakerRebate(self, quote_qty) == Big(0)

\* u64::saturating_sub
SaturatingSub(a, b) == IF BigLeq(b, a) THEN BigSub(a, b) ELSE Big(0)

\* u64 +: an overflow panics
AddU64(a, b) ==
  LET t == BigAdd(a, b) IN IF FitsU64(t) THEN Returned(t) ELSE Panicked

\* FeeTier::remove_taker_fee
RemoveTakerFee(self, quote_qty) ==
  LET rate == TakerRate(self)
      divisor == AddU64(FP_32_ONE, rate)
  IN IF divisor.panic THEN Panicked
     ELSE Unwrap(Fp32Div(quote_qty, divisor.val))

\* FeeTier::taker_fee
TakerFee(self, quote_qty) ==
  LET rate == TakerRate(self) IN Unwrap(Fp32Mul(quote_qty, rate))

\* referral_rate that returns the whole taker rate
ReferralRateUndivided(self) ==
  LET taker_rate == TakerRate(self)
      min_maker_rebate == MakerRate("Base")
  IN SaturatingSub(taker_rate, min_maker_rebate)

\* FeeTier::referral_rate
ReferralRate(self) ==
  LET taker_rate == TakerRate(self)
      min_maker_rebate == MakerRate("Base")
  IN BigDiv(SaturatingSub(taker_rate, min_maker_rebate), Big(5))

\* FeeTier::referral_fee
ReferralFee(self, quote_qty) ==
  LET rate == ReferralRate(self) IN Unwrap(Fp32Mul(quote_qty, rate))

(* ----------------------- inputs of the fee engine ---------------------- *)
RECURSIVE Pow10(_)
\* 10^n
Pow10(n) == IF n = 0 THEN Big(1) ELSE BigMul(Big(10), Pow10(n - 1))

\* quote quantities: the small ones, and amounts of every size up to u64::MAX
Quantities ==
  {Big(k) : k \in 0..MaxQty}
    \cup {Big(2502), Big(10002), Pow10(6), Pow10(12), FP_32_ONE,
          BigSub(U64Max, Big(1)), U64Max}

\* SRM balances: 0, each threshold and the amount just below it, and beyond
SrmBalances ==
  {Big(0), U64Max, BigMul(Big(150), Pow10(9))}
    \cup {Pow10(e) : e \in 8..12}
    \cup {BigSub(Pow10(e), Big(1)) : e \in 8..12}

MsrmBalances == {Big(k) : k \in 0..MaxMsrm} \cup {U64Max}
Bytes == 0..255

(* ------------------------ fee engine, as actions ----------------------- *)
\* what a caller may hold: two balances, a packed byte, a tier, or a tier
\* and a quote quantity
BalanceArgs ==
  [kind : {"balances"}, srm_held : SrmBalances, msrm_held : MsrmBalances]
ByteArgs == [kind : {"byte"}, tag : Bytes]
TierArgs == [kind : {"tier"}, self : FeeTier]
AmountArgs == [kind : {"amount"}, self : FeeTier, quote_qty : Quantities]

\* a market of either fee type and a caller with its arguments
InitFee ==
  /\ header = ZeroHeader(TagUninitialized)
  /\ orders = [s \in 0..(OrdersLen - 1) |-> ZeroOrder]
  /\ \E ft \in FeeTypes : dex_state = [tag |-> TagDexState, fee_type |-> ft]
  /\ live = {}
  /\ pre = [header |-> header, orders |-> orders, dex_state |-> dex_state]
  /\ ret = Called("none", NoVal, Ok(NoVal))
  /\ args \in BalanceArgs \cup ByteArgs \cup TierArgs \cup AmountArgs

DoFromSrmAndMsrmBalances ==
  /\ args.kind = "balances"
  /\ pre' = Snapshot
  /\ ret' = Called("from_srm_and_msrm_balances", args,
                   Returned(FromSrmAndMsrmBalances(dex_state, args.srm_held, args.msrm_held)))
  /\ UNCHANGED <<header, orders, dex_state, live, args>>

DoFromU8 ==
  /\ args.kind = "byte"
  /\ pre' = Snapshot
  /\ ret' = Called("from_u8", args, FromU8(args.tag))
  /\ UNCHANGED <<header, orders, dex_state, live, args>>

DoTakerRate ==
  /\ args.kind = "tier"
  /\ pre' = Snapshot
  /\ ret' = Called("taker_rate", args, Returned(TakerRate(args.self)))
  /\ UNCHANGED <<header, orders, dex_state, live, args>>

DoMakerRate ==
  /\ args.kind = "tier"
  /\ pre' = Snapshot
  /\ ret' = Called("maker_rate", args, Returned(MakerRate(args.self)))
  /\ UNCHANGED <<header, orders, dex_state, live, args>>

DoReferralRate ==
  /\ args.kind = "tier"
  /\ pre' = Snapshot
  /\ ret' = Called("referral_rate", args, Returned(ReferralRate(args.self)))
  /\ UNCHANGED <<header, orders, dex_state, live, args>>

DoRemoveTakerFee ==
  /\ args.kind = "amount"
  /\ pre' = Snapshot
  /\ ret' = Called("remove_taker_fee", args, RemoveTakerFee(args.self, args.quote_qty))
  /\ UNCHANGED <<header, orders, dex_state, live, args>>

DoTakerFee ==
  /\ args.kind = "amount"
  /\ pre' = Snapshot
  /\ ret' = Called("taker_fee", args, TakerFee(args.self, args.quote_qty))
  /\ UNCHANGED <<header, orders, dex_state, live, args>>

DoReferralFee ==
  /\ args.kind = "amount"
  /\ pre' = Snapshot
  /\ ret' = Called("referral_fee", args, ReferralFee(args.self, args.quote_qty))
  /\ UNCHANGED <<header, orders, dex_state, live, args>>

NextFee ==
  \/ DoFromSrmAndMsrmBalances
  \/ DoFromU8
  \/ DoTakerRate
  \/ DoMakerRate
  \/ DoReferralRate
  \/ DoRemoveTakerFee
  \/ DoTakerFee
  \/ DoReferralFee

SpecFee == InitFee /\ [][NextFee]_vars

(* ------------------------- vocabulary of the claims -------------------- *)
\* the active range [0, number_of_orders)
ActiveRange(h) == 0..(h.number_of_orders - 1)
ActiveIds(h, os) == {os[s].id : s \in ActiveRange(h)}
\* the ids of the active range are pairwise distinct
DistinctLive(h, os) ==
  \A a, b \in ActiveRange(h) : a # b => os[a].id # os[b].id
SetMin(S) == CHOOSE m \in S : \A x \in S : m <= x

RemoveSucceeded == ret.op = "remove_order" /\ IsOk(ret.res)
AddSucceeded == ret.op = "add_order" /\ IsOk(ret.res)
\* the record that the last (successful) remove_order removed
RemovedOrder == pre.orders[ret.arg]
\* the last operation left the account buffer as it was
AccountUnchanged == header = pre.header /\ orders = pre.orders

(* -------------------------------- C1 ----------------------------------- *)
\* C1: after remove_order(i) succeeds on an account whose live ids are
\* distinct, find_order_index of the removed order's id fails with
\* OrderNotFound (also when i was the last active slot).
C1_RemovedIdNotFound ==
  (RemoveSucceeded /\ DistinctLive(pre.header, pre.orders))
    => IsErr(FindOrderIndex(header, orders, RemovedOrder.id), "OrderNotFound")

(* -------------------------------- C2 ----------------------------------- *)
\* C2: for every id x, find_order_index(x) looks at the active range only: an
\* index it returns is active, holds x and is readable, and it fails with
\* OrderNotFound when no active slot holds x.
C2_FindScansActiveRange ==
  \A x \in OrderIds :
    LET r == FindOrderIndex(header, orders, x)
    IN /\ IsOk(r) => /\ r.val < header.number_of_orders
                     /\ orders[r.val].id = x
                     /\ IsOk(ReadOrder(header, orders, r.val))
       /\ (x \notin ActiveIds(header, orders)) => IsErr(r, "OrderNotFound")

(* -------------------------------- C3 ----------------------------------- *)
\* C3: add_order fails with UserAccountFull exactly when number_of_orders
\* equals the capacity; below the capacity it succeeds and the count grows by
\* one (so Capacity adds from 0 succeed); a failed add_order leaves the count
\* and every slot unchanged.
C3_FullExactlyAtCapacity ==
  ret.op = "add_order" =>
    /\ IsErr(ret.res, "UserAccountFull") <=> pre.header.number_of_orders = OrdersLen
    /\ IsOk(ret.res) <=> pre.header.number_of_orders < OrdersLen
    /\ IsOk(ret.res) => header.number_of_orders = pre.header.number_of_orders + 1
    /\ ~IsOk(ret.res) => /\ header.number_of_orders = OrdersLen
                         /\ AccountUnchanged

\* the capacity+1-th add_order has failed on a full account
C3_Witness ==
  /\ ret.op = "add_order"
  /\ IsErr(ret.res, "UserAccountFull")
  /\ header.number_of_orders = Capacity

(* -------------------------------- C4 ----------------------------------- *)
\* C4 as stated: after any successful add_order(o), find_order_index(o.id)
\* succeeds and read_order of the returned index is o.
C4_AddThenFindReadsBack ==
  AddSucceeded =>
    LET r == FindOrderIndex(header, orders, ret.arg.id)
    IN IsOk(r) /\ ReadOrder(header, orders, r.val) = Ok(ret.arg)

\* C4 amended: after a successful add_order(o) whose id was held by no active
\* slot, find_order_index(o.id) succeeds and read_order of the returned index
\* is o (id and client_id).
C4_AddFreshThenFindReadsBack ==
  (AddSucceeded /\ ret.arg.id \notin ActiveIds(pre.header, pre.orders)) =>
    LET r == FindOrderIndex(header, orders, ret.arg.id)
    IN IsOk(r) /\ ReadOrder(header, orders, r.val) = Ok(ret.arg)

\* an order with a fresh id was added behind another active order, into a slot
\* that held something else before
C4_Witness ==
  /\ AddSucceeded
  /\ ret.arg.id \notin ActiveIds(pre.header, pre.orders)
  /\ pre.header.number_of_orders >= 1
  /\ pre.orders[pre.header.number_of_orders] # ret.arg

(* -------------------------------- C5 ----------------------------------- *)
\* C5: on an account with distinct live ids, a successful remove_order(i)
\* lowers number_of_orders by exactly 1, and every other order that was active
\* is still found by its id at an active index whose record is that order.
C5_RemoveKeepsTheOthers ==
  (RemoveSucceeded /\ DistinctLive(pre.header, pre.orders)) =>
    /\ header.number_of_orders = pre.header.number_of_orders - 1
    /\ \A s \in ActiveRange(pre.header) \ {ret.arg} :
         LET o == pre.orders[s]
             r == FindOrderIndex(header, orders, o.id)
         IN /\ IsOk(r)
            /\ r.val < header.number_of_orders
            /\ ReadOrder(header, orders, r.val) = Ok(o)

\* a slot that was not the last one was removed from a full account
C5_Witness ==
  /\ RemoveSucceeded
  /\ DistinctLive(pre.header, pre.orders)
  /\ pre.header.number_of_orders = Capacity
  /\ ret.arg = 0

(* -------------------------------- C6 ----------------------------------- *)
\* C6: 0 <= number_of_orders <= capacity in every reachable state, capacity
\* being the number of 32-byte records that fit after the 152-byte header.
C6_CountWithinCapacity ==
  /\ 0 <= header.number_of_orders
  /\ header.number_of_orders <= (BufferLen - 152) \div 32
  /\ header.number_of_orders <= Cardinality(DOMAIN orders)

\* the account was filled to its capacity by a successful add_order
C6_Witness ==
  /\ AddSucceeded
  /\ header.number_of_orders = (BufferLen - 152) \div 32

(* -------------------------------- C7 ----------------------------------- *)
\* C7: when only ids that are not live are added, the ids of the active range
\* are pairwise distinct and are exactly the ids added and not since removed.
C7_ActiveIdsAreTheLiveIds ==
  /\ DistinctLive(header, orders)
  /\ ActiveIds(header, orders) = live

\* swap-remove compacted a full account and orders remain
C7_Witness ==
  /\ RemoveSucceeded
  /\ pre.header.number_of_orders = Capacity
  /\ ret.arg < Capacity - 1
  /\ live # {}

(* -------------------------------- C8 ----------------------------------- *)
\* C8: read_order(index) and remove_order(index) fail with InvalidOrderIndex
\* whenever index >= number_of_orders, and a failed remove_order or add_order
\* leaves number_of_orders and every slot unchanged.
C8_InvalidIndexAndNoPartialEffect ==
  /\ (ret.op \in {"read_order", "remove_order"}
        /\ ret.arg >= pre.header.number_of_orders)
       => IsErr(ret.res, "InvalidOrderIndex")
  /\ (ret.op \in {"read_order", "remove_order", "add_order"} /\ ~IsOk(ret.res))
       => AccountUnchanged

\* remove_order was refused for an index inside the capacity but outside the
\* active range of a non-empty account
C8_Witness ==
  /\ ret.op = "remove_order"
  /\ ret.arg >= pre.header.number_of_orders
  /\ ret.arg < Capacity
  /\ pre.header.number_of_orders >= 1
  /\ IsErr(ret.res, "InvalidOrderIndex")

(* -------------------------------- C9 ----------------------------------- *)
\* C9: for every client id c, find_order_id_by_client_id(c) returns the id of
\* the lowest active slot whose client_id is c, and fails with OrderNotFound
\* when no active slot has client_id c.
C9_ClientLookupScansActiveRange ==
  \A c \in ClientIds :
    LET r == FindOrderIdByClientId(header, orders, c)
        M == {s \in ActiveRange(header) : orders[s].client_id = c}
    IN IF M = {}
         THEN IsErr(r, "OrderNotFound")
         ELSE IsOk(r) /\ r.val = orders[SetMin(M)].id

(* -------------------------------- C10 ---------------------------------- *)
\* C10: from_buffer succeeds exactly when the tag is UserAccount and get
\* exactly when the tag is DexState; with any other tag they fail with
\* InvalidAccountData; the buffers are unchanged; the unchecked overlays
\* succeed whatever the tag.
C10_CheckedOverlayTestsTheTag ==
  /\ ret.op = "from_buffer" =>
       /\ IsOk(ret.res) <=> pre.header.tag = TagUserAccount
       /\ ~IsOk(ret.res) => IsErr(ret.res, "InvalidAccountData")
  /\ ret.op = "get" =>
       /\ IsOk(ret.res) <=> pre.dex_state.tag = TagDexState
       /\ ~IsOk(ret.res) => IsErr(ret.res, "InvalidAccountData")
  /\ ret.op \in {"from_buffer_unchecked", "get_unchecked"} => IsOk(ret.res)
  /\ ret.op \in {"from_buffer", "get", "from_buffer_unchecked", "get_unchecked"}
       => AccountUnchanged /\ dex_state = pre.dex_state

\* from_buffer refused a buffer whose tag is the other account type
C10_Witness ==
  /\ ret.op = "from_buffer"
  /\ header.tag = TagDexState
  /\ IsErr(ret.res, "InvalidAccountData")

(* -------------------------------- C11 ---------------------------------- *)
\* the operations of state.rs that take a view or build one
CoreViewOps ==
  {"from_buffer", "from_buffer_unchecked", "get", "get_unchecked", "read_order",
   "add_order", "remove_order", "find_order_index", "find_order_id_by_client_id"}

\* C11: the tag of the account buffer only moves forward along
\* Uninitialized -> UserAccount -> Closed; only new produces the UserAccount
\* tag; no overlay, read_order, add_order, remove_order or lookup changes the
\* tag; a Closed buffer is refused by the checked overlay.
C11_TagOnlyMovesForward ==
  /\ \/ header.tag = pre.header.tag
     \/ pre.header.tag = TagUninitialized /\ header.tag = TagUserAccount
     \/ pre.header.tag = TagUserAccount /\ header.tag = TagClosed
  /\ (header.tag = TagUserAccount /\ pre.header.tag # TagUserAccount)
       => ret.op = "new"
  /\ ret.op = "new" => header.tag = TagUserAccount
  /\ ret.op \in CoreViewOps => header.tag = pre.header.tag
  /\ header.tag = TagClosed => IsErr(FromBuffer(header), "InvalidAccountData")
  /\ (ret.op = "from_buffer" /\ pre.header.tag = TagClosed)
       => IsErr(ret.res, "InvalidAccountData")

\* the checked overlay has refused an account that was created and then closed
C11_Witness ==
  /\ ret.op = "from_buffer"
  /\ pre.header.tag = TagClosed
  /\ header.market # 0
  /\ IsErr(ret.res, "InvalidAccountData")

(* ------------------------------- C16, C17 ------------------------------ *)
\* the slots 0 .. n-1 hold the ids 1 .. n in this order
HoldsIdsInOrder(os, n) == \A s \in 0..(n - 1) : os[s].id = s + 1

\* C16: a successful remove_order(i) with n = number_of_orders before the
\* call: if i # n-1, slot i receives the record of slot n-1; if i = n-1 no
\* slot is written; every slot j < n-1 other than i is unchanged and
\* number_of_orders becomes n-1. With the ids 1 .. ScenarioCapacity (= 4)
\* added in order, remove_order(1) leaves the ids [1, 4, 3] in the active
\* slots and number_of_orders = 3.
C16_RemoveCopiesTheLastIntoTheHole ==
  RemoveSucceeded =>
    LET n == pre.header.number_of_orders
        i == ret.arg
    IN /\ i < n
       /\ i # n - 1 => orders[i] = pre.orders[n - 1]
       /\ i = n - 1 => orders = pre.orders
       /\ \A j \in 0..(n - 2) : j # i => orders[j] = pre.orders[j]
       /\ header.number_of_orders = n - 1
       /\ (/\ n = ScenarioCapacity
           /\ HoldsIdsInOrder(pre.orders, n)
           /\ i = 1) =>
            /\ orders[0].id = 1
            /\ orders[1].id = ScenarioCapacity
            /\ \A j \in 2..(n - 2) : orders[j].id = j + 1
            /\ ActiveRange(header) = 0..(ScenarioCapacity - 2)
\* ids 1 .. ScenarioCapacity were added in order, then index 1 was removed
C16_Witness ==
  /\ RemoveSucceeded
  /\ ret.arg = 1
  /\ pre.header.number_of_orders = ScenarioCapacity
  /\ HoldsIdsInOrder(pre.orders, ScenarioCapacity)
  /\ orders[1].id = ScenarioCapacity
  /\ header.number_of_orders = ScenarioCapacity - 1

QueryOps == {"read_order", "find_order_index", "find_order_id_by_client_id"}

\* C17: a successful add_order(o) writes o into slot number_of_orders (its
\* value before the call) and into no other slot, adds 1 to number_of_orders
\* and leaves the tag, market, owner, the four balances and the five
\* cumulative metrics as they were; read_order, find_order_index and
\* find_order_id_by_client_id change nothing.
C17_AddWritesOneSlotOnly ==
  /\ AddSucceeded =>
       LET n == pre.header.number_of_orders
       IN /\ orders[n] = ret.arg
          /\ \A s \in DOMAIN orders : s # n => orders[s] = pre.orders[s]
          /\ DOMAIN orders = DOMAIN pre.orders
          /\ header.number_of_orders = n + 1
          /\ header.tag = pre.header.tag
          /\ header.market = pre.header.market
          /\ header.owner = pre.header.owner
          /\ header.base_token_free = pre.header.base_token_free
          /\ header.base_token_locked = pre.header.base_token_locked
          /\ header.quote_token_free = pre.header.quote_token_free
          /\ header.quote_token_locked = pre.header.quote_token_locked
          /\ header.accumulated_rebates = pre.header.accumulated_rebates
          /\ header.accumulated_maker_quote_volume
               = pre.header.accumulated_maker_quote_volume
          /\ header.accumulated_maker_base_volume
               = pre.header.accumulated_maker_base_volume
          /\ header.accumulated_taker_quote_volume
               = pre.header.accumulated_taker_quote_volume
          /\ header.accumulated_taker_base_volume
               = pre.header.accumulated_taker_base_volume
  /\ ret.op \in QueryOps => AccountUnchanged /\ dex_state = pre.dex_state
\* an order was added to an empty account whose next slot held a stale record,
\* which stays
C17_Witness ==
  /\ AddSucceeded
  /\ pre.header.number_of_orders = 0
  /\ pre.orders[1] # ZeroOrder
  /\ orders[0] = ret.arg
  /\ orders[0] # orders[1]

(* ------------------------------ fee tiers ------------------------------ *)
\* the documented SRM thresholds, lowest first, and the tier each one earns
SrmThresholds == <<Pow10(8), Pow10(9), Pow10(10), Pow10(11), Pow10(12)>>
SrmTierOf == <<"Srm2", "Srm3", "Srm4", "Srm5", "Srm6">>
\* the documented table: the market's policy, then MSRM, then the highest
\* SRM threshold that is met
ReferenceTier(fee_type, srm, msrm) ==
  IF fee_type = MarketFeeTypeStable THEN "Stable"
  ELSE IF msrm # Big(0) THEN "MSrm"
  ELSE LET met == {i \in 1..Len(SrmThresholds) : BigLeq(SrmThresholds[i], srm)}
       IN IF met = {} THEN "Base"
          ELSE SrmTierOf[CHOOSE i \in met : \A k \in met : k <= i]
SrmOfTheExample == BigMul(Big(150), Pow10(9))

\* C12: from_srm_and_msrm_balances returns the tier of the documented table
\* for every market fee type and every pair of balances: Stable on a Stable
\* market, else MSrm when msrm_held >= 1, else the tier of the highest
\* threshold 10^8 .. 10^12 that srm_held reaches (inclusive), else Base; and
\* 150_000_000_000 SRM without MSRM on a Default market is Srm5.
C12_TierIsTheReferenceTable ==
  ret.op = "from_srm_and_msrm_balances" =>
    /\ ret.res = Returned(ReferenceTier(dex_state.fee_type, ret.arg.srm_held,
                                        ret.arg.msrm_held))
    /\ (/\ dex_state.fee_type = MarketFeeTypeDefault
        /\ ret.arg.srm_held = SrmOfTheExample
        /\ ret.arg.msrm_held = Big(0)) => ret.res.val = "Srm5"
    /\ dex_state.fee_type = MarketFeeTypeStable => ret.res.val = "Stable"
C12_Witness ==
  /\ ret.op = "from_srm_and_msrm_balances"
  /\ dex_state.fee_type = MarketFeeTypeDefault
  /\ ret.arg.srm_held = SrmOfTheExample
  /\ ret.arg.msrm_held = Big(0)
  /\ ret.res = Returned("Srm5")

\* a strictly below b
BigLess(a, b) == ~BigLeq(b, a)
IsTakerFeeOf(self, quote_qty) ==
  ret.op = "taker_fee" /\ ret.arg.self = self /\ ret.arg.quote_qty = quote_qty

\* C13: the taker fee on a quote quantity of 1_000_000 is 100 for tier Stable
\* and 340 for tier Srm5.
C13_TakerFeeOfTheScenarios ==
  /\ IsTakerFeeOf("Stable", Pow10(6)) => ret.res = Returned(Big(100))
  /\ IsTakerFeeOf("Srm5", Pow10(6)) => ret.res = Returned(Big(340))

\* C14: for every tier and quote quantity q, with r = remove_taker_fee(q),
\* r + taker_fee(r) is q or q - 1.
C14_RoundTripWithinOne ==
  (ret.op = "remove_taker_fee" /\ ~ret.res.panic) =>
    LET q == ret.arg.quote_qty
        r == ret.res.val
        fee == TakerFee(ret.arg.self, r)
    IN /\ ~fee.panic
       /\ BigLeq(BigAdd(r, fee.val), q)
       /\ BigLeq(q, BigAdd(BigAdd(r, fee.val), Big(1)))

\* the documented rates per 100_000, by tier rank
RatePer100000 == <<40, 39, 38, 36, 34, 32, 30, 10>>
\* v is the integer part of n / d
IsFloorOf(v, n, d) ==
  /\ BigLeq(BigMul(v, d), n)
  /\ BigLess(n, BigMul(BigAdd(v, Big(1)), d))

\* C15: on a Default market without MSRM, a balance at least as large gets a
\* tier of at least the same rank (within Base .. Srm6) and a taker rate that
\* is not higher; and the taker rate of a tier is the integer part of
\* N * 2^32 / 100_000 for N = 40, 39, 38, 36, 34, 32, 30, 10 by rank, strictly
\* above the rate of every tier of a higher rank.
C15_HoldingMoreNeverCostsMore ==
  /\ (/\ ret.op = "from_srm_and_msrm_balances"
      /\ dex_state.fee_type = MarketFeeTypeDefault
      /\ ret.arg.msrm_held = Big(0)) =>
       \A srm2 \in SrmBalances :
         BigLeq(ret.arg.srm_held, srm2) =>
           LET tier1 == ret.res.val
               tier2 == FromSrmAndMsrmBalances(dex_state, srm2, Big(0))
           IN /\ AsU8(tier1) <= AsU8(tier2)
              /\ AsU8(tier2) <= AsU8("Srm6")
              /\ BigLeq(TakerRate(tier2), TakerRate(tier1))
  /\ ret.op = "taker_rate" =>
       /\ IsFloorOf(ret.res.val, Shl32(Big(RatePer100000[AsU8(ret.arg.self) + 1])),
                    Big(100000))
       /\ \A other \in FeeTier :
            AsU8(other) > AsU8(ret.arg.self) => BigLess(TakerRate(other), ret.res.val)
C15_Witness ==
  /\ ret.op = "from_srm_and_msrm_balances"
  /\ dex_state.fee_type = MarketFeeTypeDefault
  /\ ret.arg.msrm_held = Big(0)
  /\ ret.arg.srm_held = Pow10(10)
  /\ ret.res = Returned("Srm4")
  /\ FromSrmAndMsrmBalances(dex_state, Pow10(11), Big(0)) = "Srm5"

\* the tiers that from_srm_and_msrm_balances returns
ReturnedTiers ==
  {FromSrmAndMsrmBalances([tag |-> TagDexState, fee_type |-> ft], srm, msrm) :
     ft \in FeeTypes, srm \in SrmBalances, msrm \in MsrmBalances}

\* C18: for every tier that from_srm_and_msrm_balances returns and each
\* value of the referral flag, from_u8 of the packed byte returns that tier
\* and that flag, and does not panic.
C18_FromU8DecodesEveryTier ==
  ret.op = "from_u8" =>
    \A tier \in ReturnedTiers, is_referred \in BOOLEAN :
      ret.arg.tag = PackFeeTier(tier, is_referred) =>
        ret.res = Returned(<<tier, is_referred>>)

\* C19: maker_rate is 0 for every tier, referral_rate(tier) is the integer
\* part of taker_rate(tier) / 5, and for every tier and quote quantity q
\* referral_fee(tier, q) <= taker_fee(tier, q).
C19_ReferralIsAFifthOfTheTakerRate ==
  /\ ret.op = "maker_rate" => ret.res = Returned(Big(0))
  /\ ret.op = "referral_rate" =>
       /\ ~ret.res.panic
       /\ IsFloorOf(ret.res.val, TakerRate(ret.arg.self), Big(5))
  /\ ret.op = "referral_fee" =>
       LET fee == TakerFee(ret.arg.self, ret.arg.quote_qty)
       IN /\ ~ret.res.panic
          /\ ~fee.panic
          /\ BigLeq(ret.res.val, fee.val)
\* a referral payout that is positive and below the taker fee of the trade
C19_Witness ==
  /\ ret.op = "referral_fee"
  /\ ret.arg.self = "Base"
  /\ ret.arg.quote_qty = Pow10(6)
  /\ ~ret.res.panic
  /\ BigLess(Big(0), ret.res.val)
  /\ BigLess(ret.res.val, TakerFee("Base", Pow10(6)).val)

FeeOps == {"taker_fee", "referral_fee", "remove_taker_fee"}

\* C20: for every tier and every 64-bit quote quantity, taker_fee,
\* referral_fee and remove_taker_fee return a value and do not panic: the
\* value is at most the quote quantity and fits 64 bits; the divisor
\* ONE + taker_rate(tier) is not 0 and fits 64 bits.
C20_FeesNeverPanic ==
  /\ ret.op \in FeeOps =>
       /\ ~ret.res.panic
       /\ FitsU64(ret.res.val)
       /\ BigLeq(ret.res.val, ret.arg.quote_qty)
  /\ ret.op = "taker_rate" =>
       /\ BigAdd(FP_32_ONE, ret.res.val) # Big(0)
       /\ FitsU64(BigAdd(FP_32_ONE, ret.res.val))
       /\ AddU64(FP_32_ONE, ret.res.val) = Returned(BigAdd(FP_32_ONE, ret.res.val))
\* the fee was removed from the largest 64-bit quantity
C20_Witness ==
  /\ ret.op = "remove_taker_fee"
  /\ ret.arg.quote_qty = U64Max
  /\ ~ret.res.panic
  /\ BigLess(ret.res.val, U64Max)

====
